---- MODULE Spec2Model ----
(***************************************************************************)
(* Typefont: recognition of the font of a text in an image.               *)
(*                                                                         *)
(* The module models the promise pipeline of _recognize (image load, OCR,  *)
(* fonts index, one task per font, one comparison per symbol) and the      *)
(* pure helpers _symbolsToBase64, _symbolsToDomain and _average.           *)
(*                                                                         *)
(* A promise reaction (.then / .catch handler) runs as a microtask right   *)
(* after the external operation settles, before any other external         *)
(* completion is delivered, so every action below is "an external          *)
(* operation settles and the handlers chained on it run".                  *)
(***************************************************************************)
EXTENDS Integers, Sequences, FiniteSets, TLC

VARIABLES
    OPTIONS,        \* the module-wide _OPTIONS object
    storage,        \* the fonts catalogue: the alpha section stored per font
    call,           \* "idle" until recognize is called, then "running"
    imageSt,        \* image.draw(url): "none", "pending", "ok", "failed"
    ocrSt,          \* OpticalRecognition(...): "none", "pending", "ok", "failed"
    indexSt,        \* FontStorage(fontsIndex): "none", "pending", "ok", "nocontent", "failed"
    prepDone,       \* the counter done of _prepare
    prepSt,         \* the promise returned by _prepare
    outer,          \* the promise returned by _recognize
    reason,         \* the rejection reason of outer
    recognition,    \* res.recognition.symbolsBase64, shared by all font tasks
    recognized0,    \* history: symbolsBase64 as _symbolsToBase64 returned it
    fonts,          \* res.fonts.index
    progress,       \* the const progress captured by the _prepare handler
    task,           \* one record per font of the index (see NewTask)
    done,           \* the counter done of _recognize
    result,         \* the object result of _recognize
    progressLog,    \* history: the calls made to the progress callback
    res,            \* an OCR result handed to _symbolsToBase64 on its own
    first,          \* first argument of _symbolsToDomain called on its own
    second,         \* second argument of _symbolsToDomain called on its own
    first0,         \* history: first before any reduction
    second0,        \* history: second before any reduction
    reductions,     \* number of reductions applied to (first, second)
    calls,          \* per recognize invocation: its stage and the options it read
    callLog,        \* history: the options argument of each invocation, in order
    ocrOptions,     \* the _OPTIONS object of the OpticalRecognition module
    engineCalls     \* history: the calls made to Tesseract.recognize

vars == <<OPTIONS, storage, call, imageSt, ocrSt, indexSt, prepDone, prepSt,
          outer, reason, recognition, recognized0, fonts, progress, task,
          done, result, progressLog, res, first, second, first0, second0,
          reductions, calls, callLog, ocrOptions, engineCalls>>

pipelineVars == <<call, imageSt, ocrSt, indexSt, prepDone, prepSt,
                  outer, reason, recognition, recognized0, fonts, progress,
                  task, done, result, progressLog>>

domainVars == <<first, second, first0, second0, reductions>>

callsVars == <<calls, callLog>>

ocrVars == <<ocrOptions, engineCalls>>

----------------------------------------------------------------------------
(* Bounds and input sets *)

\* longest OCR symbol sequence
MaxSymbols == 2
\* longest fonts index
MaxFonts == 2
\* most reductions applied in a row to one pair of mappings
MaxReductions == 2

Chars == {"a", "b"}
FontNames == {"fontA", "fontB"}
Confidences == {10, 30, 95}
BBoxes == {1, 2}

Undefined == "undefined"
NaN == [num |-> 0, den |-> 0]

\* JS objects used as maps are functions on their set of own keys
EmptyMap == << >>
Put(m, k, v) == [x \in (DOMAIN m) \cup {k} |-> IF x = k THEN v ELSE m[x]]
Restrict(m, S) == [x \in S |-> m[x]]
\* JS truthiness of m[k] for string values: missing or "" is falsy
Truthy(m, k) == k \in DOMAIN m /\ Len(m[k]) > 0

RECURSIVE SeqsUpTo(_, _)
SeqsUpTo(S, n) ==
    IF n = 0 THEN {<< >>}
    ELSE LET shorter == SeqsUpTo(S, n - 1)
         IN  shorter \cup {Append(s, x) : s \in shorter, x \in S}

MapsTo(V) == UNION {[S -> V] : S \in SUBSET Chars}

Symbols == [text : Chars, confidence : Confidences, bbox : BBoxes]
SymbolSeqs == SeqsUpTo(Symbols, MaxSymbols)
\* what the OCR engine returns within one recognize call
OcrOutputs == {s \in SymbolSeqs : \A k \in DOMAIN s : s[k].bbox = 1}
Indexes == SeqsUpTo(FontNames, MaxFonts)

\* a base64 payload is a sequence of symbols; the empty payload is ""
Payloads == {<< >>, <<1>>, <<2>>}
\* fonts of the catalogue carry a non-empty image per character
Alphabets == MapsTo({<<1>>})
ComparisonResults == {[perceptual |-> 80, analytical |-> 60],
                      [perceptual |-> 40, analytical |-> 40]}
ComparisonMaps == MapsTo(ComparisonResults)

OptionSets == {<< >>,
               [progress |-> "onProgress", minSymbolConfidence |-> 10]}

\* the JSON object stored for a font: fontA has a meta section, fontB has none
FontContent(name) ==
    IF name = "fontA" THEN [meta |-> [author |-> "A"], alpha |-> storage[name]]
    ELSE [alpha |-> storage[name]]

----------------------------------------------------------------------------
(* Pure helpers *)

\* "data:image/png;base64," is 22 characters long
DataURLPrefix == [i \in 1..22 |-> 0]
crop(bbox) == DataURLPrefix \o <<bbox>>
substr(s, n) == SubSeq(s, n + 1, Len(s))

\* variant: accepts a symbol whose confidence equals the threshold
RECURSIVE ExtractLoop_AcceptsEqual(_, _, _)
ExtractLoop_AcceptsEqual(symbols, k, data) ==
    IF k > Len(symbols) THEN data
    ELSE LET symbol == symbols[k]
         IN  ExtractLoop_AcceptsEqual(symbols, k + 1,
                 IF symbol.confidence >= OPTIONS.minSymbolConfidence
                 THEN Put(data, symbol.text, substr(crop(symbol.bbox), 22))
                 ELSE data)

RECURSIVE ExtractLoop(_, _, _)
ExtractLoop(symbols, k, data) ==
    IF k > Len(symbols) THEN data
    ELSE LET symbol == symbols[k]
         IN  ExtractLoop(symbols, k + 1,
                 IF symbol.confidence > OPTIONS.minSymbolConfidence
                 THEN Put(data, symbol.text, substr(crop(symbol.bbox), 22))
                 ELSE data)

_symbolsToBase64(r) == ExtractLoop(r.symbols, 1, EmptyMap)

\* variant: the first mapping is reduced on a copy and stays as it was
_symbolsToDomain_CopiesFirst(f, s) ==
    LET f1 == Restrict(f, {key \in DOMAIN f : Truthy(s, key)})
        s1 == Restrict(s, {key \in DOMAIN s : Truthy(f1, key)})
    IN  <<f, s1>>

\* returns the pair of mappings as the two loops leave them
_symbolsToDomain(f, s) ==
    LET f1 == Restrict(f, {key \in DOMAIN f : Truthy(s, key)})
        s1 == Restrict(s, {key \in DOMAIN s : Truthy(f1, key)})
    IN  <<f1, s1>>

RECURSIVE AverageLoop(_, _, _, _)
AverageLoop(r, todo, calc, ll) ==
    IF todo = {} THEN [num |-> calc, den |-> 2 * ll]
    ELSE LET symbol == CHOOSE x \in todo : TRUE
         IN  AverageLoop(r, todo \ {symbol},
                         calc + (r[symbol].perceptual + r[symbol].analytical),
                         ll + 1)

\* variant: sums perceptual + analytical without halving it
_average_NoHalving(r) ==
    [num |-> AverageLoop(r, DOMAIN r, 0, 0).num, den |-> Cardinality(DOMAIN r)]

\* the quotient calc / ll as the fraction num/den; 0/0 is NaN
_average(r) == AverageLoop(r, DOMAIN r, 0, 0)

----------------------------------------------------------------------------
(* The OpticalRecognition module *)

OcrDefaults == [lang |-> "eng",
                tessedit_char_whitelist |->
                    "aAbBcCdDeEfFgGhHiIjJkKlLmMnNoOpPqQrRsStTuUvVwWxXyYzZ0123456789"]

\* variant: an option that is already set is not overwritten
Merge_KeepsOld(target, options) ==
    [option \in (DOMAIN target) \cup (DOMAIN options) |->
        IF option \in DOMAIN target THEN target[option] ELSE options[option]]

\* for (const option in options) _OPTIONS[option] = options[option]
Merge(target, options) ==
    [option \in (DOMAIN target) \cup (DOMAIN options) |->
        IF option \in DOMAIN options THEN options[option] ELSE target[option]]

\* OpticalRecognition(url, options): merge the options into the module's
\* _OPTIONS, then Tesseract.recognize(url, _OPTIONS)
OpticalRecognition(options) ==
    /\ ocrOptions' = Merge(ocrOptions, options)
    /\ engineCalls' = Append(engineCalls,
                             [supplied |-> options, used |-> ocrOptions'])

----------------------------------------------------------------------------
(* Promises *)

\* resolve and reject only act on a pending promise
Settle(p, s) == IF p = "pending" THEN s ELSE p

\* reject of the promise returned by _recognize
RejectOuter(e) ==
    /\ outer' = Settle(outer, "rejected")
    /\ reason' = IF outer = "pending" THEN e ELSE reason

\* reject of the promise returned by _prepare, chained to the outer reject
RejectPrepare(e) ==
    /\ prepSt' = Settle(prepSt, "rejected")
    /\ RejectOuter(e)

----------------------------------------------------------------------------
(* The pipeline of _recognize *)

NewTask == [fetch |-> "pending", font |-> EmptyMap,
            todo |-> 0, cdone |-> 0, cres |-> EmptyMap, cst |-> "none",
            flight |-> {}, compared |-> {}, finalized |-> FALSE]

Defaults == [minSymbolConfidence |-> 30,
             analyticComparisonThreshold |-> 52161,
             sameSizeComparison |-> TRUE,
             fontsDirectory |-> "storage/fonts/",
             fontsData |-> "data.json",
             fontsIndex |-> "storage/index.json"]

\* no recognize call was made yet
InitPipeline ==
    /\ call = "idle"
    /\ imageSt = "none"
    /\ ocrSt = "none"
    /\ indexSt = "none"
    /\ prepDone = 0
    /\ prepSt = "none"
    /\ outer = "none"
    /\ reason = Undefined
    /\ recognition = EmptyMap
    /\ recognized0 = EmptyMap
    /\ fonts = << >>
    /\ progress = Undefined
    /\ task = << >>
    /\ done = 0
    /\ result = EmptyMap
    /\ progressLog = << >>

\* no mapping was handed to _symbolsToDomain on its own
InitDomainIdle ==
    /\ first = EmptyMap
    /\ second = EmptyMap
    /\ first0 = EmptyMap
    /\ second0 = EmptyMap
    /\ reductions = 0

\* no overlapping invocation is tracked
InitCallsIdle ==
    /\ calls = << >>
    /\ callLog = << >>

\* the OpticalRecognition module as loaded
InitOcr ==
    /\ ocrOptions = OcrDefaults
    /\ engineCalls = << >>

NoStorage == [name \in FontNames |-> EmptyMap]

Init ==
    /\ OPTIONS = Defaults
    /\ storage \in [FontNames -> Alphabets]
    /\ InitPipeline
    /\ res = [symbols |-> << >>]
    /\ InitDomainIdle
    /\ InitCallsIdle
    /\ InitOcr

\* _recognize(url, options): merge the options, start _prepare, which starts
\* image.draw(url) and FontStorage(_OPTIONS.fontsIndex)
Recognize(options) ==
    /\ call = "idle"
    /\ call' = "running"
    /\ OPTIONS' = [option \in (DOMAIN OPTIONS) \cup (DOMAIN options) |->
                      IF option \in DOMAIN options THEN options[option]
                      ELSE OPTIONS[option]]
    /\ outer' = "pending"
    /\ prepSt' = "pending"
    /\ imageSt' = "pending"
    /\ indexSt' = "pending"
    /\ UNCHANGED <<storage, ocrSt, prepDone, reason, recognition,
                   recognized0, fonts, progress, task, done, result,
                   progressLog, res>>
    /\ UNCHANGED domainVars
    /\ UNCHANGED callsVars
    /\ UNCHANGED ocrVars

\* the handler of _prepare(url).then: one _prepareFont per name of the index
FanOut(index) ==
    /\ progress' = IF "progress" \in DOMAIN OPTIONS THEN OPTIONS.progress
                   ELSE Undefined
    /\ task' = [i \in 1..Len(index) |-> NewTask]

\* variant: the join resolves when the first of the two branches is done
prepareFinalize_FirstBranch(index) ==
    LET d == prepDone + 1
    IN  /\ prepDone' = d
        /\ prepSt' = IF d >= 1 THEN Settle(prepSt, "resolved") ELSE prepSt
        /\ IF d >= 1 /\ prepSt = "pending"
           THEN FanOut(index)
           ELSE UNCHANGED <<progress, task>>

\* finalize of _prepare, followed by the handler of its promise
prepareFinalize(index) ==
    LET d == prepDone + 1
    IN  /\ prepDone' = d
        /\ prepSt' = IF d = 2 THEN Settle(prepSt, "resolved") ELSE prepSt
        /\ IF d = 2 /\ prepSt = "pending"
           THEN FanOut(index)
           ELSE UNCHANGED <<progress, task>>

\* image.draw(url) resolves: the image is binarized or not, then OCR starts on
\* it; what the pixels of the pivot are shows only in what crop returns
ImageDrawOk ==
    /\ imageSt = "pending"
    /\ imageSt' = "ok"
    /\ ocrSt' = "pending"
    /\ UNCHANGED <<OPTIONS, storage, call, indexSt, prepDone, prepSt, outer, reason,
                   recognition, recognized0, fonts, progress, task, done,
                   result, progressLog, res>>
    /\ UNCHANGED domainVars
    /\ UNCHANGED callsVars
    /\ OpticalRecognition(<< >>)

ImageDrawFail ==
    /\ imageSt = "pending"
    /\ imageSt' = "failed"
    /\ RejectPrepare("image error")
    /\ UNCHANGED <<OPTIONS, storage, call, ocrSt, indexSt, prepDone,
                   recognition, recognized0, fonts, progress, task, done,
                   result, progressLog, res>>
    /\ UNCHANGED domainVars
    /\ UNCHANGED callsVars
    /\ UNCHANGED ocrVars

\* OpticalRecognition(...) resolves with the symbols it recognized
OcrOk(symbols) ==
    /\ ocrSt = "pending"
    /\ ocrSt' = "ok"
    /\ recognition' = _symbolsToBase64([symbols |-> symbols])
    /\ recognized0' = recognition'
    /\ prepareFinalize(fonts)
    /\ UNCHANGED <<OPTIONS, storage, call, imageSt, indexSt, outer, reason,
                   fonts, done, result, progressLog, res>>
    /\ UNCHANGED domainVars
    /\ UNCHANGED callsVars
    /\ UNCHANGED ocrVars

OcrFail ==
    /\ ocrSt = "pending"
    /\ ocrSt' = "failed"
    /\ RejectPrepare("ocr error")
    /\ UNCHANGED <<OPTIONS, storage, call, imageSt, indexSt, prepDone,
                   recognition, recognized0, fonts, progress, task, done,
                   result, progressLog, res>>
    /\ UNCHANGED domainVars
    /\ UNCHANGED callsVars
    /\ UNCHANGED ocrVars

\* FontStorage(fontsIndex) resolves with a content
IndexOk(index) ==
    /\ indexSt = "pending"
    /\ indexSt' = "ok"
    /\ fonts' = index
    /\ prepareFinalize(index)
    /\ UNCHANGED <<OPTIONS, storage, call, imageSt, ocrSt, outer, reason,
                   recognition, recognized0, done, result, progressLog, res>>
    /\ UNCHANGED domainVars
    /\ UNCHANGED callsVars
    /\ UNCHANGED ocrVars

\* variant: an index without content is ignored
IndexNoContent_Silent ==
    /\ indexSt = "pending"
    /\ indexSt' = "nocontent"
    /\ UNCHANGED <<OPTIONS, storage, call, imageSt, ocrSt, prepDone, prepSt,
                   outer, reason, recognition, recognized0, fonts, progress,
                   task, done, result, progressLog, res>>
    /\ UNCHANGED domainVars
    /\ UNCHANGED callsVars
    /\ UNCHANGED ocrVars

\* FontStorage(fontsIndex) resolves without content
IndexNoContent ==
    /\ indexSt = "pending"
    /\ indexSt' = "nocontent"
    /\ RejectPrepare("Unable to open the fonts index.")
    /\ UNCHANGED <<OPTIONS, storage, call, imageSt, ocrSt, prepDone,
                   recognition, recognized0, fonts, progress, task, done,
                   result, progressLog, res>>
    /\ UNCHANGED domainVars
    /\ UNCHANGED callsVars
    /\ UNCHANGED ocrVars

IndexFail ==
    /\ indexSt = "pending"
    /\ indexSt' = "failed"
    /\ RejectPrepare("storage error")
    /\ UNCHANGED <<OPTIONS, storage, call, imageSt, ocrSt, prepDone,
                   recognition, recognized0, fonts, progress, task, done,
                   result, progressLog, res>>
    /\ UNCHANGED domainVars
    /\ UNCHANGED callsVars
    /\ UNCHANGED ocrVars

\* variant: the promise is resolved by the first comparison that resolves
_compare_FirstWins(f, s) ==
    [todo |-> 1, cdone |-> 0, cres |-> EmptyMap,
     cst |-> "pending", flight |-> DOMAIN f]

\* _compare(first, second): todo is the number of keys of first and one
\* ImageComparison is launched per key; with no key nothing is launched
_compare(f, s) ==
    [todo |-> Cardinality(DOMAIN f), cdone |-> 0, cres |-> EmptyMap,
     cst |-> "pending", flight |-> DOMAIN f]

\* FontStorage(url/name/data) resolves with a content: the handler reduces
\* the shared recognition and the font's alpha, then starts _compare
FontFetchOk(i) ==
    /\ i \in DOMAIN task
    /\ task[i].fetch = "pending"
    /\ LET font == FontContent(fonts[i])
           dom == _symbolsToDomain(recognition, font.alpha)
           cmp == _compare(dom[1], dom[2])
       IN  /\ recognition' = dom[1]
           /\ task' = [task EXCEPT ![i] =
                  [fetch |-> "ok",
                   font |-> [font EXCEPT !.alpha = dom[2]],
                   todo |-> cmp.todo, cdone |-> cmp.cdone, cres |-> cmp.cres,
                   cst |-> cmp.cst, flight |-> cmp.flight,
                   compared |-> cmp.flight, finalized |-> FALSE]]
    /\ UNCHANGED <<OPTIONS, storage, call, imageSt, ocrSt, indexSt, prepDone,
                   prepSt, outer, reason, recognized0, fonts, progress, done,
                   result, progressLog, res>>
    /\ UNCHANGED domainVars
    /\ UNCHANGED callsVars
    /\ UNCHANGED ocrVars

\* variant: a font without content is dropped silently
FontFetchNoContent_NoReject(i) ==
    /\ i \in DOMAIN task
    /\ task[i].fetch = "pending"
    /\ task' = [task EXCEPT ![i].fetch = "nocontent"]
    /\ UNCHANGED <<OPTIONS, storage, call, imageSt, ocrSt, indexSt, prepDone,
                   prepSt, outer, reason, recognition, recognized0, fonts,
                   progress, done, result, progressLog, res>>
    /\ UNCHANGED domainVars
    /\ UNCHANGED callsVars
    /\ UNCHANGED ocrVars

\* FontStorage resolves without content: _prepareFont rejects
FontFetchNoContent(i) ==
    /\ i \in DOMAIN task
    /\ task[i].fetch = "pending"
    /\ task' = [task EXCEPT ![i].fetch = "nocontent"]
    /\ RejectOuter("Unable to open the " \o fonts[i] \o " font.")
    /\ UNCHANGED <<OPTIONS, storage, call, imageSt, ocrSt, indexSt, prepDone,
                   prepSt, recognition, recognized0, fonts, progress, done,
                   result, progressLog, res>>
    /\ UNCHANGED domainVars
    /\ UNCHANGED callsVars
    /\ UNCHANGED ocrVars

FontFetchFail(i) ==
    /\ i \in DOMAIN task
    /\ task[i].fetch = "pending"
    /\ task' = [task EXCEPT ![i].fetch = "failed"]
    /\ RejectOuter("storage error")
    /\ UNCHANGED <<OPTIONS, storage, call, imageSt, ocrSt, indexSt, prepDone,
                   prepSt, recognition, recognized0, fonts, progress, done,
                   result, progressLog, res>>
    /\ UNCHANGED domainVars
    /\ UNCHANGED callsVars
    /\ UNCHANGED ocrVars

\* variant: resolves as soon as one font task has finished
finalize_EarlyResolve(i, val) ==
    LET name == fonts[i]
        font == task[i].font
        meta == IF "meta" \in DOMAIN font THEN font.meta ELSE EmptyMap
        d == done + 1
        todo == Len(fonts)
    IN  /\ done' = d
        /\ result' = Put(result, name, Put(meta, "similarity", _average(val)))
        /\ progressLog' =
               IF progress # Undefined
               THEN Append(progressLog,
                           [name |-> name, val |-> val, done |-> d,
                            todo |-> todo, task |-> i, outer |-> outer])
               ELSE progressLog
        /\ outer' = IF d >= 1 THEN Settle(outer, "resolved") ELSE outer

\* variant: reports progress after settling the promise
finalize_LateProgress(i, val) ==
    LET name == fonts[i]
        font == task[i].font
        meta == IF "meta" \in DOMAIN font THEN font.meta ELSE EmptyMap
        d == done + 1
        todo == Len(fonts)
    IN  /\ done' = d
        /\ result' = Put(result, name, Put(meta, "similarity", _average(val)))
        /\ outer' = IF d = todo THEN Settle(outer, "resolved") ELSE outer
        /\ progressLog' =
               IF progress # Undefined
               THEN Append(progressLog,
                           [name |-> name, val |-> val, done |-> d,
                            todo |-> todo, task |-> i, outer |-> outer'])
               ELSE progressLog

\* finalize of _recognize for the font task i, whose _compare resolved with val
finalize(i, val) ==
    LET name == fonts[i]
        font == task[i].font
        meta == IF "meta" \in DOMAIN font THEN font.meta ELSE EmptyMap
        d == done + 1
        todo == Len(fonts)
    IN  /\ done' = d
        /\ result' = Put(result, name, Put(meta, "similarity", _average(val)))
        /\ progressLog' =
               IF progress # Undefined
               THEN Append(progressLog,
                           [name |-> name, val |-> val, done |-> d,
                            todo |-> todo, task |-> i, outer |-> outer])
               ELSE progressLog
        /\ outer' = IF d = todo THEN Settle(outer, "resolved") ELSE outer

\* an ImageComparison of task i resolves: finalize of _compare, and when it
\* resolves the promise of _compare, finalize of _recognize
CompareOk(i, symbol, r) ==
    /\ i \in DOMAIN task
    /\ symbol \in task[i].flight
    /\ LET t == task[i]
           d == t.cdone + 1
           fin == Put(t.cres, symbol, r)
           resolves == d = t.todo /\ t.cst = "pending"
       IN  /\ task' = [task EXCEPT ![i] =
                  [t EXCEPT !.flight = @ \ {symbol}, !.cdone = d, !.cres = fin,
                            !.cst = IF d = t.todo THEN Settle(@, "resolved")
                                    ELSE @,
                            !.finalized = resolves]]
           /\ IF resolves THEN finalize(i, fin)
              ELSE UNCHANGED <<done, result, progressLog, outer>>
    /\ UNCHANGED <<OPTIONS, storage, call, imageSt, ocrSt, indexSt, prepDone,
                   prepSt, reason, recognition, recognized0, fonts, progress,
                   res>>
    /\ UNCHANGED domainVars
    /\ UNCHANGED callsVars
    /\ UNCHANGED ocrVars

\* an ImageComparison of task i rejects: _compare rejects, so does _recognize
CompareFail(i, symbol) ==
    /\ i \in DOMAIN task
    /\ symbol \in task[i].flight
    /\ task' = [task EXCEPT ![i] =
           [@ EXCEPT !.flight = @ \ {symbol},
                     !.cst = Settle(@, "rejected")]]
    /\ IF task[i].cst = "pending" THEN RejectOuter("comparison error")
       ELSE UNCHANGED <<outer, reason>>
    /\ UNCHANGED <<OPTIONS, storage, call, imageSt, ocrSt, indexSt, prepDone,
                   prepSt, recognition, recognized0, fonts, progress, done,
                   result, progressLog, res>>
    /\ UNCHANGED domainVars
    /\ UNCHANGED callsVars
    /\ UNCHANGED ocrVars

TaskIds == 1..MaxFonts

Next ==
    \/ \E options \in OptionSets : Recognize(options)
    \/ ImageDrawOk
    \/ ImageDrawFail
    \/ \E symbols \in OcrOutputs : OcrOk(symbols)
    \/ OcrFail
    \/ \E index \in Indexes : IndexOk(index)
    \/ IndexNoContent
    \/ IndexFail
    \/ \E i \in TaskIds : FontFetchOk(i)
    \/ \E i \in TaskIds : FontFetchNoContent(i)
    \/ \E i \in TaskIds : FontFetchFail(i)
    \/ \E i \in TaskIds, symbol \in Chars, r \in ComparisonResults :
           CompareOk(i, symbol, r)
    \/ \E i \in TaskIds, symbol \in Chars : CompareFail(i, symbol)

Spec == Init /\ [][Next]_vars

----------------------------------------------------------------------------
(* _symbolsToBase64 on its own: every symbol sequence, both thresholds *)

Thresholds == {10, 30}

InitExtract ==
    /\ OPTIONS \in {[Defaults EXCEPT !.minSymbolConfidence = m] :
                      m \in Thresholds}
    /\ storage = NoStorage
    /\ InitPipeline
    /\ res \in {[symbols |-> symbols] : symbols \in SymbolSeqs}
    /\ InitDomainIdle
    /\ InitCallsIdle
    /\ InitOcr

\* res.symbolsBase64 = _symbolsToBase64(image, res)
Extract ==
    /\ "symbolsBase64" \notin DOMAIN res
    /\ res' = [symbols |-> res.symbols, symbolsBase64 |-> _symbolsToBase64(res)]
    /\ UNCHANGED <<OPTIONS, storage>>
    /\ UNCHANGED pipelineVars
    /\ UNCHANGED domainVars
    /\ UNCHANGED callsVars
    /\ UNCHANGED ocrVars

NextExtract == Extract

SpecExtract == InitExtract /\ [][NextExtract]_vars

----------------------------------------------------------------------------
(* _symbolsToDomain on its own: every pair of mappings, applied repeatedly *)

DomainMaps == MapsTo(Payloads)

InitDomain ==
    /\ OPTIONS = Defaults
    /\ storage = NoStorage
    /\ InitPipeline
    /\ res = [symbols |-> << >>]
    /\ first \in DomainMaps
    /\ second \in DomainMaps
    /\ first0 = first
    /\ second0 = second
    /\ reductions = 0
    /\ InitCallsIdle
    /\ InitOcr

\* _symbolsToDomain(first, second)
Reduce ==
    /\ reductions < MaxReductions
    /\ reductions' = reductions + 1
    /\ first' = _symbolsToDomain(first, second)[1]
    /\ second' = _symbolsToDomain(first, second)[2]
    /\ UNCHANGED <<OPTIONS, storage, res, first0, second0>>
    /\ UNCHANGED pipelineVars
    /\ UNCHANGED callsVars
    /\ UNCHANGED ocrVars

NextDomain == Reduce

SpecDomain == InitDomain /\ [][NextDomain]_vars

----------------------------------------------------------------------------
(* Properties *)

FontFetchFailed ==
    \E i \in DOMAIN task : task[i].fetch \in {"nocontent", "failed"}

\* no external operation of the call is pending
Quiescent ==
    /\ call = "running"
    /\ imageSt # "pending" /\ ocrSt # "pending" /\ indexSt # "pending"
    /\ \A i \in DOMAIN task : task[i].fetch # "pending" /\ task[i].flight = {}

\* every external operation the call started has succeeded
AllSucceeded ==
    /\ imageSt = "ok" /\ ocrSt = "ok" /\ indexSt = "ok"
    /\ \A i \in DOMAIN task :
          /\ task[i].fetch = "ok"
          /\ task[i].flight = {}
          /\ task[i].cst # "rejected"

\* C1: once the fetch of a font of the index has failed (the storage call
\* rejected or returned no content) the promise returned by recognize is
\* rejected, and it is never resolved, whatever the other font tasks did
\* before or do afterwards.
C1_FailFast == FontFetchFailed => outer = "rejected"

\* a font fetch failed while another font's evaluation ran to its end
C1_Witness ==
    \E i, j \in DOMAIN task :
        /\ task[i].fetch \in {"nocontent", "failed"}
        /\ task[j].finalized
        /\ outer = "rejected"

\* C2: the set of characters compared for a font is the intersection of that
\* font's own alphabet with the recognized set as symbol extraction produced
\* it, whatever the order in which the font fetches complete.
C2_Isolation ==
    \A i \in DOMAIN task :
        task[i].fetch = "ok" =>
            task[i].compared = (DOMAIN storage[fonts[i]]) \cap (DOMAIN recognized0)

\* the sets compared when the font fetches complete in the order of the index
RECURSIVE InOrderRecognition(_)
InOrderRecognition(k) ==
    IF k = 0 THEN recognized0
    ELSE _symbolsToDomain(InOrderRecognition(k - 1), storage[fonts[k]])[1]

\* C3: the mapping recognize resolves with does not depend on the order in
\* which the font fetches complete: for every font the set of compared
\* characters is the one of the run in which the fetches complete in the
\* order of the index, and the result has one key per font name.
C3_OrderIndependence ==
    outer = "resolved" =>
        /\ DOMAIN result = {fonts[i] : i \in DOMAIN fonts}
        /\ \A i \in DOMAIN task :
              task[i].compared = DOMAIN InOrderRecognition(i)

\* C4: a font with no character in common with the recognized set is
\* evaluated with zero comparisons and a NaN similarity, and once every
\* operation of the call has succeeded recognize is resolved with a key for
\* every font of the index.
C4_EmptyIntersection ==
    \A i \in DOMAIN task :
        ( /\ Quiescent
          /\ AllSucceeded
          /\ (DOMAIN storage[fonts[i]]) \cap (DOMAIN recognized0) = {} )
        => /\ task[i].compared = {}
           /\ outer = "resolved"
           /\ \A j \in DOMAIN fonts : fonts[j] \in DOMAIN result
           /\ result[fonts[i]].similarity = NaN

\* C5: once every external operation started by a recognize call has
\* settled, the promise returned by recognize has settled, and it is
\* resolved when all of them succeeded, for every index, the empty one
\* included.
C5_Termination ==
    Quiescent =>
        /\ outer \in {"resolved", "rejected"}
        /\ AllSucceeded => outer = "resolved"

\* C6: when the promise returned by recognize is resolved, every font task
\* has finished successfully, no stage has failed, and the result has
\* exactly one entry, with a similarity, per distinct font name of the index.
C6_NoPartialResult ==
    outer = "resolved" =>
        /\ AllSucceeded
        /\ \A i \in DOMAIN task : task[i].finalized /\ task[i].cst = "resolved"
        /\ Len(task) = Len(fonts)
        /\ done = Len(fonts)
        /\ DOMAIN result = {fonts[i] : i \in DOMAIN fonts}
        /\ \A name \in DOMAIN result : "similarity" \in DOMAIN result[name]

\* recognize resolved over an index of two different fonts
C6_Witness ==
    /\ outer = "resolved"
    /\ Len(fonts) = 2
    /\ Cardinality(DOMAIN result) = 2

\* the positions of the symbols of character c that pass the threshold
Accepted(symbols, c) ==
    {k \in DOMAIN symbols :
        /\ symbols[k].text = c
        /\ symbols[k].confidence > OPTIONS.minSymbolConfidence}

Max(S) == CHOOSE x \in S : \A y \in S : y <= x

C8_Symmetry ==
    reductions >= 1 =>
        /\ DOMAIN first = DOMAIN second
        /\ DOMAIN first = (DOMAIN first0) \cap (DOMAIN second0)
        /\ \A key \in DOMAIN first : first[key] = first0[key]
        /\ \A key \in DOMAIN second : second[key] = second0[key]

\* equality of two fractions, neither of which is 0/0
RatEq(x, y) == x.den # 0 /\ y.den # 0 /\ x.num * y.den = y.num * x.den

RECURSIVE SumOfScores(_, _)
SumOfScores(m, S) ==
    IF S = {} THEN 0
    ELSE LET x == CHOOSE y \in S : TRUE
         IN  m[x].perceptual + m[x].analytical + SumOfScores(m, S \ {x})

\* the sum of (perceptual + analytical) / 2 over the number of entries
Mean(m) == [num |-> SumOfScores(m, DOMAIN m), den |-> 2 * Cardinality(DOMAIN m)]

ExampleMap == [symbol \in {"a", "b"} |->
                 IF symbol = "a" THEN [perceptual |-> 80, analytical |-> 60]
                 ELSE [perceptual |-> 40, analytical |-> 40]]

\* C9: _average of a non-empty comparison map is the sum of
\* (perceptual + analytical) / 2 over its entries divided by their number
\* (0.55 for {a: {0.8, 0.6}, b: {0.4, 0.4}}, scores in hundredths), it is
\* 0/0 for the empty map, and the similarity stored for a font is _average
\* of the comparison map of a finished task of that font.
C9_AggregateSimilarity ==
    /\ \A m \in ComparisonMaps :
          IF DOMAIN m = {} THEN _average(m) = NaN
          ELSE RatEq(_average(m), Mean(m))
    /\ RatEq(_average(ExampleMap), [num |-> 55, den |-> 1])
    /\ \A name \in DOMAIN result :
          \E i \in DOMAIN task :
              /\ fonts[i] = name
              /\ task[i].finalized
              /\ RatEq(result[name].similarity, Mean(task[i].cres))

\* a font task finished with the comparison map of the example
C9_Witness ==
    \E i \in DOMAIN task :
        /\ task[i].finalized
        /\ task[i].cres = ExampleMap
        /\ fonts[i] \in DOMAIN result
        /\ RatEq(result[fonts[i]].similarity, [num |-> 55, den |-> 1])

Finalized == {i \in DOMAIN task : task[i].finalized}

\* C10: with a progress callback configured, the callback has been called
\* once per finished font task, with that font's name and comparison map;
\* the k-th call carries the fraction k/n and is made while the promise is
\* not resolved; when the call is resolved there were n calls, the last one
\* with fraction n/n.
C10_Progress ==
    progress # Undefined =>
        /\ Len(progressLog) = Cardinality(Finalized)
        /\ \A i \in Finalized :
              Cardinality({k \in DOMAIN progressLog : progressLog[k].task = i}) = 1
        /\ \A k \in DOMAIN progressLog :
              LET entry == progressLog[k]
              IN  /\ entry.task \in Finalized
                  /\ entry.name = fonts[entry.task]
                  /\ entry.val = task[entry.task].cres
                  /\ DOMAIN entry.val = task[entry.task].compared
                  /\ entry.done = k
                  /\ entry.todo = Len(fonts)
                  /\ entry.outer # "resolved"
        /\ outer = "resolved" =>
              /\ Len(progressLog) = Len(fonts)
              /\ progressLog[Len(progressLog)].done = Len(fonts)

\* a call over two fonts resolved after two calls of the progress callback
C10_Witness ==
    /\ progress # Undefined
    /\ outer = "resolved"
    /\ Len(fonts) = 2
    /\ Len(progressLog) = 2
    /\ progressLog[2].done = progressLog[2].todo

----------------------------------------------------------------------------
(* Several recognize invocations on the one _OPTIONS object.  Each          *)
(* invocation is followed through the places where it reads an option; its  *)
(* index holds one font and its recognition one symbol.                     *)

\* most recognize invocations
MaxCalls == 2

OptionsA == [minSymbolConfidence |-> 10,
             analyticComparisonThreshold |-> 30000,
             fontsDirectory |-> "fontsA/",
             progress |-> "onProgressA"]
OptionsB == [minSymbolConfidence |-> 50,
             analyticComparisonThreshold |-> 70000,
             fontsDirectory |-> "fontsB/",
             progress |-> "onProgressB"]
CallOptionSets == {<< >>, OptionsA, OptionsB, [verbose |-> "yes"]}

\* the value of _OPTIONS[k] now, with the number of invocations made so far
Read(k) ==
    [value |-> IF k \in DOMAIN OPTIONS THEN OPTIONS[k] ELSE Undefined,
     at |-> Len(callLog)]

Reads(used, keys) ==
    [k \in (DOMAIN used) \cup keys |-> IF k \in keys THEN Read(k) ELSE used[k]]

InitCalls ==
    /\ OPTIONS = Defaults
    /\ storage = NoStorage
    /\ InitPipeline
    /\ res = [symbols |-> << >>]
    /\ InitDomainIdle
    /\ InitCallsIdle
    /\ InitOcr

\* _recognize(url, options): the options are merged, _prepare starts the
\* image recognition and _prepareFontsIndex(url = _OPTIONS.fontsIndex)
CallRecognize(options) ==
    /\ Len(callLog) < MaxCalls
    /\ OPTIONS' = Merge(OPTIONS, options)
    /\ callLog' = Append(callLog, options)
    /\ calls' = Append(calls,
           [ocr |-> "pending", index |-> "pending", font |-> "none",
            cmp |-> "none", outer |-> "pending",
            used |-> [k \in {"fontsIndex"} |->
                        [value |-> OPTIONS'[k], at |-> Len(callLog')]]])
    /\ UNCHANGED <<storage, res>>
    /\ UNCHANGED pipelineVars
    /\ UNCHANGED domainVars
    /\ UNCHANGED ocrVars

\* the handler of _prepare: progress is captured and _prepareFont(name) is
\* called with url = _OPTIONS.fontsDirectory and data = _OPTIONS.fontsData
CallFanOut(invocation) ==
    [invocation EXCEPT !.font = "pending",
                 !.used = Reads(@, {"progress", "fontsDirectory", "fontsData"})]

\* variant: symbol extraction uses the configuration as it was when the
\* invocation started
CallOcrOk_Snapshot(c) ==
    /\ c \in DOMAIN calls
    /\ calls[c].ocr = "pending"
    /\ LET k == "minSymbolConfidence"
           before == {j \in 1..c : k \in DOMAIN callLog[j]}
           extracted ==
               [calls[c] EXCEPT
                   !.ocr = "ok",
                   !.used = [x \in (DOMAIN @) \cup {k} |->
                       IF x = k
                       THEN [value |-> IF before = {} THEN Defaults[k]
                                       ELSE callLog[CHOOSE j \in before :
                                                \A i \in before : i <= j][k],
                             at |-> Len(callLog)]
                       ELSE @[x]]]
       IN  calls' = [calls EXCEPT ![c] =
                        IF extracted.index = "ok" /\ extracted.outer = "pending"
                        THEN CallFanOut(extracted) ELSE extracted]
    /\ UNCHANGED <<OPTIONS, storage, res, callLog>>
    /\ UNCHANGED pipelineVars
    /\ UNCHANGED domainVars
    /\ UNCHANGED ocrVars

\* OCR resolves: _symbolsToBase64 reads _OPTIONS.minSymbolConfidence, then
\* finalize of _prepare
CallOcrOk(c) ==
    /\ c \in DOMAIN calls
    /\ calls[c].ocr = "pending"
    /\ LET extracted == [calls[c] EXCEPT
                            !.ocr = "ok",
                            !.used = Reads(@, {"minSymbolConfidence"})]
       IN  calls' = [calls EXCEPT ![c] =
                        IF extracted.index = "ok" /\ extracted.outer = "pending"
                        THEN CallFanOut(extracted) ELSE extracted]
    /\ UNCHANGED <<OPTIONS, storage, res, callLog>>
    /\ UNCHANGED pipelineVars
    /\ UNCHANGED domainVars
    /\ UNCHANGED ocrVars

\* the fonts index arrives, then finalize of _prepare
CallIndexOk(c) ==
    /\ c \in DOMAIN calls
    /\ calls[c].index = "pending"
    /\ LET fetched == [calls[c] EXCEPT !.index = "ok"]
       IN  calls' = [calls EXCEPT ![c] =
                        IF fetched.ocr = "ok" /\ fetched.outer = "pending"
                        THEN CallFanOut(fetched) ELSE fetched]
    /\ UNCHANGED <<OPTIONS, storage, res, callLog>>
    /\ UNCHANGED pipelineVars
    /\ UNCHANGED domainVars
    /\ UNCHANGED ocrVars

\* the font arrives: _compare hands _OPTIONS.analyticComparisonThreshold and
\* _OPTIONS.sameSizeComparison to ImageComparison
CallFontOk(c) ==
    /\ c \in DOMAIN calls
    /\ calls[c].font = "pending"
    /\ calls' = [calls EXCEPT ![c] =
           [@ EXCEPT !.font = "ok", !.cmp = "pending",
                     !.used = Reads(@, {"analyticComparisonThreshold",
                                        "sameSizeComparison"})]]
    /\ UNCHANGED <<OPTIONS, storage, res, callLog>>
    /\ UNCHANGED pipelineVars
    /\ UNCHANGED domainVars
    /\ UNCHANGED ocrVars

\* the comparison resolves: finalize calls the captured progress and resolves
CallCompareOk(c) ==
    /\ c \in DOMAIN calls
    /\ calls[c].cmp = "pending"
    /\ calls' = [calls EXCEPT ![c] =
           [@ EXCEPT !.cmp = "ok", !.outer = Settle(@, "resolved")]]
    /\ UNCHANGED <<OPTIONS, storage, res, callLog>>
    /\ UNCHANGED pipelineVars
    /\ UNCHANGED domainVars
    /\ UNCHANGED ocrVars

\* a pending operation of the invocation fails: the invocation is rejected
CallFail(c, op) ==
    /\ c \in DOMAIN calls
    /\ calls[c][op] = "pending"
    /\ calls' = [calls EXCEPT ![c] =
           [@ EXCEPT ![op] = "failed", !.outer = Settle(@, "rejected")]]
    /\ UNCHANGED <<OPTIONS, storage, res, callLog>>
    /\ UNCHANGED pipelineVars
    /\ UNCHANGED domainVars
    /\ UNCHANGED ocrVars

CallIds == 1..MaxCalls

NextCalls ==
    \/ \E options \in CallOptionSets : CallRecognize(options)
    \/ \E c \in CallIds : CallOcrOk(c)
    \/ \E c \in CallIds : CallIndexOk(c)
    \/ \E c \in CallIds : CallFontOk(c)
    \/ \E c \in CallIds : CallCompareOk(c)
    \/ \E c \in CallIds, op \in {"ocr", "index", "font", "cmp"} : CallFail(c, op)

SpecCalls == InitCalls /\ [][NextCalls]_vars

\* the invocations among the first n that supplied option k
Suppliers(k, n) == {j \in 1..n : k \in DOMAIN callLog[j]}

\* the value the most recent of the first n invocations gave to option k,
\* its default when none did
Effective(k, n) ==
    IF Suppliers(k, n) # {} THEN callLog[Max(Suppliers(k, n))][k]
    ELSE IF k \in DOMAIN Defaults THEN Defaults[k]
    ELSE Undefined

\* C11: after any sequence of recognize calls the configuration has the
\* default options plus every option ever supplied, each option holds the
\* value of the most recent call that supplied it (its default if none did),
\* and a call that omits an option reads that persisted value.
C11_ConfigPersistence ==
    /\ DOMAIN OPTIONS =
          (DOMAIN Defaults) \cup UNION {DOMAIN callLog[j] : j \in DOMAIN callLog}
    /\ \A k \in DOMAIN OPTIONS : OPTIONS[k] = Effective(k, Len(callLog))
    /\ \A c \in DOMAIN calls :
          \A k \in DOMAIN calls[c].used :
              (calls[c].used[k].at = c /\ k \notin DOMAIN callLog[c])
                  => calls[c].used[k].value = Effective(k, c - 1)

\* the second call omitted minSymbolConfidence and extracted its symbols
\* with the value the first call had supplied; an unknown key was stored
C11_Witness ==
    /\ Len(callLog) = 2
    /\ callLog[1] = OptionsA
    /\ callLog[2] = [verbose |-> "yes"]
    /\ "verbose" \in DOMAIN OPTIONS
    /\ "minSymbolConfidence" \in DOMAIN calls[2].used
    /\ calls[2].used["minSymbolConfidence"].value = 10

\* C16: every stage of an invocation reads the shared configuration as it
\* is when the stage runs, so it gets the value of the most recent
\* invocation started by then that supplied the option, also when that
\* invocation started after its own; the witness is the interleaving in
\* which A observes the overrides of B.
C16_ConfigRace ==
    \A c \in DOMAIN calls :
        \A k \in DOMAIN calls[c].used :
            calls[c].used[k].value = Effective(k, calls[c].used[k].at)

RacedOptions == {"minSymbolConfidence", "analyticComparisonThreshold",
                 "fontsDirectory", "progress"}

\* invocation 1 was called with OptionsA, invocation 2 with OptionsB while 1
\* was running, and 1 extracted, fetched, compared and reported with the
\* values of OptionsB
C16_Witness ==
    /\ Len(callLog) = 2
    /\ callLog[1] = OptionsA
    /\ callLog[2] = OptionsB
    /\ calls[1].outer = "resolved"
    /\ \A k \in RacedOptions :
          /\ k \in DOMAIN calls[1].used
          /\ calls[1].used[k].at = 2
          /\ calls[1].used[k].value = OptionsB[k]
          /\ calls[1].used[k].value # OptionsA[k]

\* C12: applying _symbolsToDomain to a pair it has already reduced removes
\* no key from either mapping.
C12_Idempotence ==
    [][reductions >= 1 => (first' = first /\ second' = second)]_vars

\* C13: when the mapping handed to _compare has no key, _compare launches
\* no comparison and, once nothing is pending any more, its promise is
\* resolved with an empty mapping.
C13_EmptyCompare ==
    \A i \in DOMAIN task :
        (Quiescent /\ task[i].fetch = "ok" /\ task[i].todo = 0)
            => /\ task[i].compared = {}
               /\ task[i].cst = "resolved"
               /\ task[i].cres = EmptyMap

\* the comparisons of task i that were rejected
FailedComparisons(i) ==
    task[i].compared \ (task[i].flight \cup DOMAIN task[i].cres)

\* C14: for a non-empty mapping _compare launches one comparison per key
\* present at the call; it is resolved exactly when all of them have
\* resolved, with a map on that key set, whatever the shared mapping has
\* lost since; it is rejected exactly when one of them was rejected.
C14_CompareFanOut ==
    \A i \in DOMAIN task :
        (task[i].fetch = "ok" /\ task[i].compared # {}) =>
            /\ task[i].compared = DOMAIN task[i].font.alpha
            /\ task[i].todo = Cardinality(task[i].compared)
            /\ task[i].flight \subseteq task[i].compared
            /\ DOMAIN task[i].cres \subseteq task[i].compared \ task[i].flight
            /\ task[i].cdone = Cardinality(DOMAIN task[i].cres)
            /\ task[i].cst = "resolved" <=> DOMAIN task[i].cres = task[i].compared
            /\ task[i].cst = "rejected" <=> FailedComparisons(i) # {}
            /\ task[i].cst = "pending" <=>
                  (task[i].flight # {} /\ FailedComparisons(i) = {})
            /\ task[i].finalized <=> task[i].cst = "resolved"

\* _compare resolved with two keys, one of which a sibling has deleted from
\* the shared mapping in the meantime
C14_Witness ==
    \E i \in DOMAIN task :
        /\ task[i].cst = "resolved"
        /\ DOMAIN task[i].cres = {"a", "b"}
        /\ DOMAIN recognition # {"a", "b"}

JoinFailed ==
    \/ imageSt = "failed"
    \/ ocrSt = "failed"
    \/ indexSt \in {"nocontent", "failed"}

\* C15: font fetches exist only once the image recognition and the index
\* fetch have both succeeded; when either branch has failed the call is
\* rejected, the counter of the join is below 2, the join is not resolved
\* and no font fetch was started.
C15_JoinOrdering ==
    /\ (prepSt = "resolved" \/ Len(task) > 0) =>
          (imageSt = "ok" /\ ocrSt = "ok" /\ indexSt = "ok" /\ prepDone = 2)
    /\ JoinFailed =>
          /\ outer = "rejected"
          /\ prepSt = "rejected"
          /\ prepDone < 2
          /\ task = << >>

\* the index, with two fonts, arrived first and OCR failed afterwards
C15_Witness ==
    /\ indexSt = "ok"
    /\ Len(fonts) = 2
    /\ ocrSt = "failed"
    /\ prepDone = 1
    /\ task = << >>
    /\ outer = "rejected"

\* C17: once the call is rejected because a font fetch failed and nothing
\* is pending any more, every other font task whose fetch succeeded and
\* none of whose comparisons was rejected has run to its end: its score is
\* stored and its progress call was made.
C17_NoCancellation ==
    \A j \in DOMAIN task :
        ( /\ Quiescent
          /\ FontFetchFailed
          /\ outer = "rejected"
          /\ task[j].fetch = "ok"
          /\ FailedComparisons(j) = {} )
        => /\ task[j].finalized
           /\ fonts[j] \in DOMAIN result
           /\ progress # Undefined =>
                 \E k \in DOMAIN progressLog : progressLog[k].task = j

StageFailed ==
    \/ JoinFailed
    \/ FontFetchFailed
    \/ \E i \in DOMAIN task : task[i].cst = "rejected"

\* the tasks that exist before and after a step
Continuing == (DOMAIN task) \cap (DOMAIN task')

\* C18: a step after which a stage has failed leaves the call rejected; a
\* missing index that rejects the call gives the reason "Unable to open the
\* fonts index.", a missing font one that names the font; and an operation
\* that has failed or settled is never pending again.
C18_StageFailures ==
    [][ /\ StageFailed' => outer' = "rejected"
        /\ (outer = "pending" /\ indexSt = "pending" /\ indexSt' = "nocontent")
              => reason' = "Unable to open the fonts index."
        /\ \A i \in Continuing :
              ( /\ outer = "pending"
                /\ task[i].fetch = "pending"
                /\ task'[i].fetch = "nocontent" )
              => reason' = "Unable to open the " \o fonts[i] \o " font."
        /\ imageSt \in {"ok", "failed"} => imageSt' = imageSt
        /\ ocrSt \in {"ok", "failed"} => ocrSt' = ocrSt
        /\ indexSt \in {"ok", "nocontent", "failed"} => indexSt' = indexSt
        /\ \A i \in DOMAIN task :
              /\ i \in DOMAIN task'
              /\ task[i].fetch # "pending" =>
                    /\ task'[i].fetch = task[i].fetch
                    /\ task'[i].compared = task[i].compared
                    /\ task'[i].flight \subseteq task[i].flight
      ]_vars

\* fontA arrived and was compared, then fontB turned out to be missing
C18_Witness ==
    /\ DOMAIN task = {1, 2}
    /\ fonts = <<"fontA", "fontB">>
    /\ task[1].finalized
    /\ task[2].fetch = "nocontent"
    /\ outer = "rejected"
    /\ reason = "Unable to open the fontB font."

\* the font tasks whose domain reduction has run
Reduced == {i \in DOMAIN task : task[i].fetch = "ok"}

\* the shared mapping is the original one cut down to the alphabets of the
\* fonts reduced so far, and no font compares outside its own alphabet
SharedMappingReduced ==
    ocrSt = "ok" =>
        /\ DOMAIN recognition =
              {c \in DOMAIN recognized0 :
                  \A i \in Reduced : c \in DOMAIN storage[fonts[i]]}
        /\ \A c \in DOMAIN recognition : recognition[c] = recognized0[c]
        /\ \A i \in Reduced :
              task[i].compared \subseteq
                  (DOMAIN storage[fonts[i]]) \cap (DOMAIN recognized0)

-----------------------------------------------------------------------------
(* The OpticalRecognition module called directly, any number of times *)

\* most wrapper calls in one run
MaxOcrCalls == 4

\* the options a caller of OpticalRecognition(url, options) supplies
OcrOptionSets ==
    { << >>,
      [lang |-> "fra"],
      [tessedit_char_whitelist |-> "0123456789"] }

\* the module as loaded, nothing else running
InitOcrCalls ==
    /\ OPTIONS = Defaults
    /\ storage = NoStorage
    /\ InitPipeline
    /\ res = [symbols |-> << >>]
    /\ InitDomainIdle
    /\ InitCallsIdle
    /\ InitOcr

\* a caller invokes OpticalRecognition(url, options)
OcrCall(options) ==
    /\ Len(engineCalls) < MaxOcrCalls
    /\ OpticalRecognition(options)
    /\ UNCHANGED <<OPTIONS, storage, res>>
    /\ UNCHANGED pipelineVars
    /\ UNCHANGED domainVars
    /\ UNCHANGED callsVars

NextOcr == \E options \in OcrOptionSets : OcrCall(options)

SpecOcr == InitOcrCalls /\ [][NextOcr]_vars

\* C20: every wrapper call that supplies no options hands the engine the
\* language "eng" and the whitelist of ASCII letters and digits, whatever
\* the earlier calls supplied.
C20_OcrDefaults ==
    \A n \in DOMAIN engineCalls :
        DOMAIN engineCalls[n].supplied = {}
        => /\ engineCalls[n].used.lang = OcrDefaults.lang
           /\ engineCalls[n].used.tessedit_char_whitelist =
                  OcrDefaults.tessedit_char_whitelist

====
